---- MODULE Spec2Model ----
(***************************************************************************)
(* A model of the CRM GraphQL core of alx-backend-graphql_crm:             *)
(*   crm/schema.py   is_valid_phone, CreateCustomer, BulkCreateCustomers,  *)
(*                   CreateProduct, CreateOrder, OrderType                 *)
(*   crm/filters.py  ProductFilter                                         *)
(* The tables of crm/models.py are the state.  The constraints the         *)
(* Customer table enforces on save() follow the data model of the          *)
(* specification (section 3): email unique, phone unique when present.     *)
(*                                                                         *)
(* Encodings.  A Python string whose characters matter (a phone, a product *)
(* name) is a sequence of one-character strings; None is the one-element   *)
(* sequence <<"None">>, which is no string.  An optional number is <<>>    *)
(* (None) or <<n>>.  Emails and customer names are compared for equality   *)
(* and emptiness only and are TLA+ strings.  Prices are integers (a        *)
(* Decimal counted in its smallest unit).                                  *)
(***************************************************************************)
EXTENDS Integers, Sequences, FiniteSets, TLC

VARIABLES
    customers,  \* Customer table: sequence of rows, row i has id i
    products,   \* Product table: sequence of rows, row i has id i
    orders,     \* Order table with the order_product join rows held per order
    last,       \* what the last completed call was and what it returned
    procs,      \* concurrent requests: each one's position and local variables
    phone,      \* the string handed to is_valid_phone
    typing,     \* which part of the phone string is being typed
    accepted,   \* is_valid_phone(phone)
    query       \* the last allProducts query: its filter arguments and result

vars == <<customers, products, orders, last, procs, phone, typing, accepted, query>>

----------------------------------------------------------------------------
(* Bounds of the model *)

MaxCustomers == 3
MaxBulk == 2
MaxProducts == 2
MaxOrders == 1
MaxIds == 2
MaxPrefix == 2
MaxRun == 16
MaxSuffix == 1
MaxFilterProducts == 2

----------------------------------------------------------------------------
(* Python values *)

None == <<"None">>
Falsy(x) == x = None \/ x = <<>>

RECURSIVE SumSeq(_)
SumSeq(q) == IF q = <<>> THEN 0 ELSE Head(q) + SumSeq(Tail(q))

Range(q) == {q[i] : i \in 1..Len(q)}

SeqsUpTo(S, n) == UNION {[1..k -> S] : k \in 0..n}

----------------------------------------------------------------------------
(* is_valid_phone: re.compile(r'^\+?[1-9]\d{1,14}$').match(phone)           *)

MinMoreDigits == 1
MaxMoreDigits == 14

AsciiDigits == {"0", "1", "2", "3", "4", "5", "6", "7", "8", "9"}
\* "u0663" stands for the one character U+0663 ARABIC-INDIC DIGIT THREE
UnicodeDigits == AsciiDigits \cup {"u0663"}

\* [1-9]
IsFirstDigit(c) == c \in AsciiDigits \ {"0"}
\* \d in a str pattern: any Unicode decimal digit
IsDigit(c) == c \in UnicodeDigits
\* $ without re.MULTILINE: at the end, or just before a newline that ends the string
AtDollar(p, i) == i = Len(p) + 1 \/ (i = Len(p) /\ p[i] = "\n")

is_valid_phone(p) ==
    LET start == IF Len(p) >= 1 /\ p[1] = "+" THEN 2 ELSE 1
    IN  /\ Len(p) >= start
        /\ IsFirstDigit(p[start])
        /\ \E k \in MinMoreDigits..MaxMoreDigits :
              /\ start + k <= Len(p)
              /\ \A j \in (start + 1)..(start + k) : IsDigit(p[j])
              /\ AtDollar(p, start + k + 1)

----------------------------------------------------------------------------
(* The Customer table (crm/models.py, modelled from the specification)      *)

Present(ph) == ~Falsy(ph)

EmailTaken(table, email) == \E i \in 1..Len(table) : table[i].email = email
PhoneTaken(table, ph) == \E i \in 1..Len(table) : table[i].phone = ph

\* a table without the unique constraint on email
CustomerUniqueNoEmail(table, row) ==
    Present(row.phone) => ~PhoneTaken(table, row.phone)

\* a table without the unique constraint on phone
CustomerUniqueNoPhone(table, row) ==
    ~EmailTaken(table, row.email)

\* the unique constraints the table enforces when a row is inserted
CustomerUnique(table, row) ==
    /\ ~EmailTaken(table, row.email)
    /\ Present(row.phone) => ~PhoneTaken(table, row.phone)

NewCustomer(table, input) ==
    [id |-> Len(table) + 1, name |-> input.name, email |-> input.email,
     phone |-> input.phone]

\* customer.save(): the row is inserted, or the insert raises IntegrityError
CustomerSave(table, input) ==
    IF CustomerUnique(table, NewCustomer(table, input))
    THEN [ok |-> TRUE, table |-> Append(table, NewCustomer(table, input))]
    ELSE [ok |-> FALSE, table |-> table]

----------------------------------------------------------------------------
(* CreateCustomer.mutate *)

\* the checks with the phone format looked at last
CreateCustomerChecksPhoneLast(table, input) ==
    IF EmailTaken(table, input.email) THEN "EmailExists"
    ELSE IF PhoneTaken(table, input.phone) THEN "PhoneExists"
    ELSE IF Falsy(input.phone) \/ ~is_valid_phone(input.phone) THEN "InvalidPhone"
    ELSE "pass"

\* the checks in front of customer.save(), in the order of the code
CreateCustomerChecks(table, input) ==
    IF Falsy(input.phone) \/ ~is_valid_phone(input.phone) THEN "InvalidPhone"
    ELSE IF EmailTaken(table, input.email) THEN "EmailExists"
    ELSE IF PhoneTaken(table, input.phone) THEN "PhoneExists"
    ELSE "pass"

CreateCustomerMutate(table, input) ==
    LET check == CreateCustomerChecks(table, input)
        saved == CustomerSave(table, input)
    IN  IF check # "pass" THEN [result |-> check, table |-> table]
        ELSE IF saved.ok THEN [result |-> "ok", table |-> saved.table]
        ELSE [result |-> "IntegrityError", table |-> table]

----------------------------------------------------------------------------
(* BulkCreateCustomers.mutate *)

\* one pass of the body of "for item in input"; acc.raised is an exception
\* that "except GraphQLError" does not catch and that ends the call
BulkItem(acc, item) ==
    LET saved == CustomerSave(acc.table, item)
    IN  IF acc.raised # "" THEN acc
        ELSE IF item.name = "" \/ item.email = ""
        THEN [acc EXCEPT !.errors = Append(@, "RequiredFields")]
        ELSE IF ~Falsy(item.phone) /\ ~is_valid_phone(item.phone)
        THEN [acc EXCEPT !.errors = Append(@, "InvalidPhone")]
        ELSE IF EmailTaken(acc.table, item.email)
        THEN [acc EXCEPT !.errors = Append(@, "EmailExists")]
        ELSE IF saved.ok
        THEN [acc EXCEPT !.table = saved.table,
                         !.created = Append(@, Len(saved.table))]
        ELSE [acc EXCEPT !.raised = "IntegrityError"]

RECURSIVE BulkLoop(_, _)
BulkLoop(acc, input) ==
    IF input = <<>> THEN acc
    ELSE BulkLoop(BulkItem(acc, Head(input)), Tail(input))

BulkMutate(table, input) ==
    BulkLoop([table |-> table, created |-> <<>>, errors |-> <<>>, raised |-> ""],
             input)

----------------------------------------------------------------------------
(* Inputs of the customer mutations *)

Emails == {"a@x.com", "b@x.com"}
PhoneA == <<"+", "1", "2">>
PhoneB == <<"3", "4", "5">>
PhoneBad == <<"0", "1">>

CustomerInputs ==
    [name : {"A"}, email : Emails, phone : {None, <<>>, PhoneBad, PhoneA, PhoneB}]

\* every well-formed item, and one item for each way an item is malformed
BulkItems ==
    [name : {"A"}, email : Emails, phone : {None, PhoneA}]
    \cup {[name |-> "", email |-> "a@x.com", phone |-> None],
          [name |-> "A", email |-> "", phone |-> PhoneA],
          [name |-> "A", email |-> "b@x.com", phone |-> PhoneBad]}

BulkInputs == SeqsUpTo(BulkItems, MaxBulk)

\* the requests served at the same time
Procs == {"p", "q"}
Idle == [pc |-> "idle", op |-> "none", input |-> <<>>, result |-> "", oid |-> 0]

NoCall == [op |-> "none", input |-> <<>>, result |-> "", created |-> <<>>,
           errors |-> <<>>]

----------------------------------------------------------------------------
(* The mutations as atomic calls *)

CreateCustomer(input) ==
    LET r == CreateCustomerMutate(customers, input)
    IN  /\ Len(r.table) <= MaxCustomers
        /\ customers' = r.table
        /\ last' = [op |-> "CreateCustomer", input |-> input, result |-> r.result,
                    created |-> <<>>, errors |-> <<>>]
        /\ UNCHANGED <<products, orders, procs, phone, typing, accepted, query>>

BulkCreateCustomers(input) ==
    LET r == BulkMutate(customers, input)
    IN  /\ Len(r.table) <= MaxCustomers
        /\ customers' = r.table
        /\ last' = [op |-> "BulkCreateCustomers", input |-> [n |-> Len(input)],
                    result |-> IF r.raised = "" THEN "ok" ELSE r.raised,
                    created |-> r.created, errors |-> r.errors]
        /\ UNCHANGED <<products, orders, procs, phone, typing, accepted, query>>

\* no call made, no request under way, nothing typed, nothing queried
InitIdle ==
    /\ last = NoCall
    /\ procs = [p \in Procs |-> Idle]
    /\ phone = <<>>
    /\ typing = [part |-> "prefix", n |-> 0]
    /\ accepted = FALSE
    /\ query = <<>>

\* the empty database
InitCommon ==
    /\ customers = <<>>
    /\ products = <<>>
    /\ orders = <<>>
    /\ InitIdle

InitCustomer == InitCommon

NextCustomer ==
    \/ \E input \in CustomerInputs : CreateCustomer(input)
    \/ \E input \in BulkInputs : BulkCreateCustomers(input)

SpecCustomer == InitCustomer /\ [][NextCustomer]_vars

----------------------------------------------------------------------------
(* CreateProduct.mutate *)

\* stock = input.stock or 0
StockOrZero(stock) == IF stock = <<>> \/ stock = <<0>> THEN 0 ELSE stock[1]

NewProduct(table, input) ==
    [id |-> Len(table) + 1, name |-> input.name, price |-> input.price,
     stock |-> StockOrZero(input.stock)]

\* the mutation with product.save() moved in front of the stock check
CreateProductMutateSaveFirst(table, input) ==
    IF input.price <= 0 THEN [result |-> "InvalidPrice", table |-> table]
    ELSE IF StockOrZero(input.stock) < 0
    THEN [result |-> "InvalidStock", table |-> Append(table, NewProduct(table, input))]
    ELSE [result |-> "ok", table |-> Append(table, NewProduct(table, input))]

CreateProductMutate(table, input) ==
    IF input.price <= 0 THEN [result |-> "InvalidPrice", table |-> table]
    ELSE IF StockOrZero(input.stock) < 0
    THEN [result |-> "InvalidStock", table |-> table]
    ELSE [result |-> "ok", table |-> Append(table, NewProduct(table, input))]

----------------------------------------------------------------------------
(* CreateOrder.mutate *)

\* Customer.objects.get(id=customer_id) finds a row
CustomerFound(table, customer_id) == customer_id \in 1..Len(table)

\* Product.objects.filter(id__in=product_ids): the rows, each once, in id order
ProductsIn(table, product_ids) ==
    SelectSeq(table, LAMBDA row : row.id \in Range(product_ids))

\* the count with repeated ids taken once
RequestedCountDistinct(product_ids) == Cardinality(Range(product_ids))

\* len(product_ids)
RequestedCount(product_ids) == Len(product_ids)

\* sum([product.price for product in products])
TotalOf(rows) == SumSeq([i \in 1..Len(rows) |-> rows[i].price])

CreateOrderChecks(ctable, ptable, input) ==
    IF input.product_ids = <<>> THEN "NoProductIds"
    ELSE IF ~CustomerFound(ctable, input.customer_id) THEN "InvalidCustomer"
    ELSE IF ProductsIn(ptable, input.product_ids) = <<>> THEN "NoProducts"
    ELSE IF Len(ProductsIn(ptable, input.product_ids))
                # RequestedCount(input.product_ids)
    THEN "CountMismatch"
    ELSE "pass"

\* order.save(): the row, with no order_product rows yet
NewOrder(otable, ptable, input) ==
    [id |-> Len(otable) + 1, customer |-> input.customer_id,
     total_amount |-> TotalOf(ProductsIn(ptable, input.product_ids)),
     product |-> {}]

\* order.product.set(products) on the order with id oid
SetProducts(otable, oid, rows) ==
    [otable EXCEPT ![oid].product = {rows[i].id : i \in 1..Len(rows)}]

CreateOrderMutate(ctable, ptable, otable, input) ==
    LET check == CreateOrderChecks(ctable, ptable, input)
        saved == Append(otable, NewOrder(otable, ptable, input))
    IN  IF check # "pass" THEN [result |-> check, table |-> otable]
        ELSE [result |-> "ok",
              table |-> SetProducts(saved, Len(saved),
                                    ProductsIn(ptable, input.product_ids))]

\* a resolver that adds up the current prices instead
resolve_total_amount_recomputed(order) ==
    TotalOf(SelectSeq(products, LAMBDA row : row.id \in order.product))

\* OrderType.resolve_total_amount
resolve_total_amount(order) == order.total_amount

----------------------------------------------------------------------------
(* The single-entity mutations as atomic calls, with a product's price      *)
(* changed from outside between calls                                       *)

\* one input for each outcome of CreateCustomer
ShopCustomerInputs ==
    {[name |-> "A", email |-> "a@x.com", phone |-> PhoneA],
     [name |-> "A", email |-> "b@x.com", phone |-> PhoneA],
     [name |-> "A", email |-> "a@x.com", phone |-> PhoneBad]}
Prices == {1, 2}
ProductInputs == [name : {<<"P">>}, price : {0, 1}, stock : {<<>>, <<-1>>}]
\* the code reads product_ids as a set and a length: the order of the ids
\* plays no part, and the lists are taken in ascending order
IsAscending(q) == \A i \in 1..(Len(q) - 1) : q[i] <= q[i + 1]
ProductIdLists == {q \in SeqsUpTo(1..MaxProducts, MaxIds) : IsAscending(q)}
OrderInputs == [customer_id : {1}, product_ids : ProductIdLists]

CreateProduct(input) ==
    LET r == CreateProductMutate(products, input)
    IN  /\ Len(r.table) <= MaxProducts
        /\ products' = r.table
        /\ last' = [op |-> "CreateProduct", input |-> input, result |-> r.result,
                    created |-> <<>>, errors |-> <<>>]
        /\ UNCHANGED <<customers, orders, procs, phone, typing, accepted, query>>

CreateOrder(input) ==
    LET r == CreateOrderMutate(customers, products, orders, input)
    IN  /\ Len(r.table) <= MaxOrders
        /\ orders' = r.table
        /\ last' = [op |-> "CreateOrder", input |-> input, result |-> r.result,
                    created |-> <<>>, errors |-> <<>>]
        /\ UNCHANGED <<customers, products, procs, phone, typing, accepted, query>>

\* a product's price is changed by a writer outside the four mutations
SetProductPrice(id, price) ==
    /\ id \in 1..Len(products)
    /\ products[id].price # price
    /\ products' = [products EXCEPT ![id].price = price]
    /\ last' = [op |-> "SetProductPrice", input |-> <<id, price>>, result |-> "ok",
                created |-> <<>>, errors |-> <<>>]
    /\ UNCHANGED <<customers, orders, procs, phone, typing, accepted, query>>

Init == InitCommon

Next ==
    \/ \E input \in ShopCustomerInputs : CreateCustomer(input)
    \/ \E input \in ProductInputs : CreateProduct(input)
    \/ \E input \in OrderInputs : CreateOrder(input)
    \/ \E id \in 1..MaxProducts, price \in Prices : SetProductPrice(id, price)

Spec == Init /\ [][Next]_vars

----------------------------------------------------------------------------
(* Claims about the single-entity mutations, checked under Spec *)

\* the sum of the current prices of the products an order is joined to
CurrentTotal(order) ==
    TotalOf(SelectSeq(products, LAMBDA row : row.id \in order.product))

\* C2: the total_amount of an order created by CreateOrder is the sum of the
\* prices of its products as they stand when it is created, and no later step,
\* a change of a product's price included, changes the total_amount the order
\* reports.
C2_TotalFrozen ==
    [][/\ Len(orders') >= Len(orders)
       /\ \A i \in 1..Len(orders) :
             (resolve_total_amount(orders[i]))' = resolve_total_amount(orders[i])
       /\ \A i \in (Len(orders) + 1)..Len(orders') :
             (resolve_total_amount(orders[i]))' = CurrentTotal(orders'[i])]_vars

\* C2's case: an order of two products exists and a price has changed since,
\* so that its total_amount is no longer the sum of the current prices
C2_Witness ==
    \E i \in 1..Len(orders) :
        /\ Cardinality(orders[i].product) >= 2
        /\ resolve_total_amount(orders[i]) # CurrentTotal(orders[i])

HasRepeatOfExisting(ptable, product_ids) ==
    \E i, j \in 1..Len(product_ids) :
        i # j /\ product_ids[i] = product_ids[j] /\ product_ids[i] \in 1..Len(ptable)

\* C3: CreateOrder with an existing customer and a product-id list that
\* repeats an existing id fails with the count-mismatch error and creates no
\* order; CreateOrder succeeds only when the number of resolved products
\* equals the number of requested ids.
C3_RepeatedIdsRejected ==
    [][last'.op = "CreateOrder" =>
        LET input == last'.input
            resolved == {id \in 1..Len(products) :
                            \E i \in 1..Len(input.product_ids) : input.product_ids[i] = id}
        IN  /\ (CustomerFound(customers, input.customer_id)
                  /\ HasRepeatOfExisting(products, input.product_ids)) =>
                   (last'.result = "CountMismatch" /\ orders' = orders)
            /\ last'.result = "ok" =>
                   (/\ Cardinality(resolved) = Len(input.product_ids)
                    /\ Len(orders') = Len(orders) + 1
                    /\ orders'[Len(orders')].product = resolved)]_vars

\* C3's case: the list [1, 1] was submitted for an existing customer when
\* product 1 existed, and the call failed with the count-mismatch error
C3_Witness ==
    /\ last.op = "CreateOrder" /\ last.result = "CountMismatch"
    /\ last.input.product_ids = <<1, 1>>
    /\ CustomerFound(customers, last.input.customer_id)
    /\ Len(products) >= 1

\* C10: a CreateCustomer, CreateProduct or CreateOrder call that returns an
\* error inserts no row and no order-product association and modifies no row.
C10_FailureChangesNothing ==
    [][(last'.op \in {"CreateCustomer", "CreateProduct", "CreateOrder"}
          /\ last'.result # "ok") =>
            (customers' = customers /\ products' = products /\ orders' = orders)]_vars

\* C10's case: a CreateOrder call failed on its last check, after a customer,
\* a product and an order had been stored
C10_Witness ==
    /\ last.op = "CreateOrder" /\ last.result = "CountMismatch"
    /\ Len(customers) >= 1 /\ Len(products) >= 1 /\ Len(orders) >= 1


----------------------------------------------------------------------------
(* Two requests served at the same time.  Each statement of a mutation that *)
(* reads or writes the database is a step; with no transaction opened by    *)
(* the code, every write is committed as it is made.                        *)

ConcCustomerInputs == [name : {"A"}, email : Emails, phone : {PhoneBad, PhoneA, PhoneB}]
ConcOrderInputs == [customer_id : {1}, product_ids : {<<1>>, <<1, 2>>, <<2, 2>>}]

Free(p) == procs[p].pc \in {"idle", "done"}

\* CreateCustomer.mutate up to the first query: the phone format and
\* Customer.objects.filter(email=input.email).exists()
CC_CheckEmail(p, input) ==
    /\ Free(p)
    /\ procs' = [procs EXCEPT ![p] =
          [pc |-> IF Falsy(input.phone) \/ ~is_valid_phone(input.phone)
                     \/ EmailTaken(customers, input.email)
                  THEN "done" ELSE "cc_phone",
           op |-> "CreateCustomer", input |-> input,
           result |-> IF Falsy(input.phone) \/ ~is_valid_phone(input.phone)
                      THEN "InvalidPhone"
                      ELSE IF EmailTaken(customers, input.email)
                      THEN "EmailExists" ELSE "",
           oid |-> 0]]
    /\ UNCHANGED <<customers, products, orders, last, phone, typing, accepted, query>>

\* Customer.objects.filter(phone=input.phone).exists()
CC_CheckPhone(p) ==
    /\ procs[p].pc = "cc_phone"
    /\ procs' = [procs EXCEPT ![p].pc =
                      IF PhoneTaken(customers, procs[p].input.phone)
                      THEN "done" ELSE "cc_save",
                  ![p].result =
                      IF PhoneTaken(customers, procs[p].input.phone)
                      THEN "PhoneExists" ELSE ""]
    /\ UNCHANGED <<customers, products, orders, last, phone, typing, accepted, query>>

\* customer.save()
CC_Save(p) ==
    LET saved == CustomerSave(customers, procs[p].input)
    IN  /\ procs[p].pc = "cc_save"
        /\ Len(saved.table) <= MaxCustomers
        /\ customers' = saved.table
        /\ procs' = [procs EXCEPT ![p].pc = "done",
                      ![p].result = IF saved.ok THEN "ok" ELSE "IntegrityError"]
        /\ UNCHANGED <<products, orders, last, phone, typing, accepted, query>>

\* CreateOrder.mutate up to and with order.save()
CO_Save(p, input) ==
    LET check == CreateOrderChecks(customers, products, input)
    IN  /\ Free(p)
        /\ check = "pass" => Len(orders) < MaxOrders
        /\ orders' = IF check = "pass"
                     THEN Append(orders, NewOrder(orders, products, input))
                     ELSE orders
        /\ procs' = [procs EXCEPT ![p] =
              [pc |-> IF check = "pass" THEN "co_set" ELSE "done",
               op |-> "CreateOrder", input |-> input,
               result |-> IF check = "pass" THEN "" ELSE check,
               oid |-> IF check = "pass" THEN Len(orders) + 1 ELSE 0]]
        /\ UNCHANGED <<customers, products, last, phone, typing, accepted, query>>

\* order.product.set(products), with the rows the queryset fetched
CO_SetProducts(p) ==
    /\ procs[p].pc = "co_set"
    /\ orders' = SetProducts(orders, procs[p].oid,
                             ProductsIn(products, procs[p].input.product_ids))
    /\ procs' = [procs EXCEPT ![p].pc = "done", ![p].result = "ok"]
    /\ UNCHANGED <<customers, products, last, phone, typing, accepted, query>>

\* a database the mutations have filled before the two requests arrive
SeedProduct(id) == [id |-> id, name |-> <<"P">>, price |-> id, stock |-> 0]

InitConc ==
    /\ InitIdle
    /\ orders = <<>>
    /\ customers \in
          {<<>>, <<[id |-> 1, name |-> "A", email |-> "a@x.com", phone |-> PhoneA]>>}
    /\ products = [id \in 1..MaxProducts |-> SeedProduct(id)]

NextConc ==
    \/ \E p \in Procs, input \in ConcCustomerInputs : CC_CheckEmail(p, input)
    \/ \E p \in Procs : CC_CheckPhone(p)
    \/ \E p \in Procs : CC_Save(p)
    \/ \E p \in Procs, input \in ConcOrderInputs : CO_Save(p, input)
    \/ \E p \in Procs : CO_SetProducts(p)

SpecConc == InitConc /\ [][NextConc]_vars

----------------------------------------------------------------------------
(* Claims about requests served at the same time, checked under SpecConc *)

ConflictErrors == {"EmailExists", "PhoneExists", "IntegrityError"}

Finished(p, op) == procs[p].pc = "done" /\ procs[p].op = op

\* C1: of two CreateCustomer calls carrying the same email, under every
\* interleaving of their steps, at most one succeeds and the other fails with
\* a conflict error; no two persisted customers share an email.
C1_EmailUnique ==
    /\ \A i, j \in 1..Len(customers) :
          i # j => customers[i].email # customers[j].email
    /\ \A p, q \in Procs :
          (/\ p # q
           /\ Finished(p, "CreateCustomer") /\ Finished(q, "CreateCustomer")
           /\ procs[p].input.email = procs[q].input.email
           /\ is_valid_phone(procs[p].input.phone)
           /\ is_valid_phone(procs[q].input.phone)) =>
              (/\ ~(procs[p].result = "ok" /\ procs[q].result = "ok")
               /\ procs[p].result = "ok" => procs[q].result \in ConflictErrors)

\* C1's case: both calls passed the existence checks before either saved, one
\* was stored and the other was turned down by the table
C1_Witness ==
    \E p, q \in Procs :
        /\ p # q
        /\ Finished(p, "CreateCustomer") /\ Finished(q, "CreateCustomer")
        /\ procs[p].input.email = procs[q].input.email
        /\ procs[p].input.phone # procs[q].input.phone
        /\ procs[p].result = "ok" /\ procs[q].result = "IntegrityError"

\* C7: every persisted order has a non-empty product set and references an
\* existing customer: no state with an order that has no products is seen.
C7_OrdersComplete ==
    \A i \in 1..Len(orders) :
        /\ orders[i].product # {}
        /\ CustomerFound(customers, orders[i].customer)

----------------------------------------------------------------------------
(* is_valid_phone on typed strings: a prefix of any characters, a run of    *)
(* digits, a suffix of any characters                                       *)

Alphabet == {"+", "0", "1", "9", "a", " ", "\n", "u0663"}

TypePrefix(c) ==
    /\ typing.part = "prefix" /\ typing.n < MaxPrefix
    /\ phone' = Append(phone, c)
    /\ typing' = [typing EXCEPT !.n = @ + 1]
    /\ accepted' = is_valid_phone(phone')
    /\ UNCHANGED <<customers, products, orders, last, procs, query>>

TypeDigit ==
    /\ typing.part \in {"prefix", "digits"}
    /\ typing.part = "digits" => typing.n < MaxRun
    /\ phone' = Append(phone, "5")
    /\ typing' = [part |-> "digits",
                  n |-> IF typing.part = "digits" THEN typing.n + 1 ELSE 1]
    /\ accepted' = is_valid_phone(phone')
    /\ UNCHANGED <<customers, products, orders, last, procs, query>>

TypeSuffix(c) ==
    /\ typing.part = "suffix" => typing.n < MaxSuffix
    /\ phone' = Append(phone, c)
    /\ typing' = [part |-> "suffix",
                  n |-> IF typing.part = "suffix" THEN typing.n + 1 ELSE 1]
    /\ accepted' = is_valid_phone(phone')
    /\ UNCHANGED <<customers, products, orders, last, procs, query>>

InitPhone == InitCommon

NextPhone ==
    \/ \E c \in Alphabet : TypePrefix(c)
    \/ TypeDigit
    \/ \E c \in Alphabet : TypeSuffix(c)

SpecPhone == InitPhone /\ [][NextPhone]_vars

\* the strings the claim C8 describes: an optional leading "+", a digit 1-9,
\* then 1 to 14 further digits, and nothing else
ClaimedPhoneShape(p) ==
    LET start == IF Len(p) >= 1 /\ p[1] = "+" THEN 2 ELSE 1
    IN  /\ Len(p) >= start
        /\ IsFirstDigit(p[start])
        /\ Len(p) - start \in 1..14
        /\ \A j \in (start + 1)..Len(p) : IsDigit(p[j])

\* C8: phone validation accepts a string if and only if it is an optional
\* leading "+", a digit 1-9 and 1 to 14 further digits; every other string
\* is rejected.
C8_PhoneShape == accepted = ClaimedPhoneShape(phone)

----------------------------------------------------------------------------
(* ProductFilter *)

LowStockLimit == 10

Lower(c) == CASE c = "P" -> "p" [] c = "E" -> "e" [] c = "N" -> "n"
              [] c = "I" -> "i" [] c = "K" -> "k" [] OTHER -> c

\* lookup_expr='icontains'
IContains(s, part) ==
    \E i \in 0..(Len(s) - Len(part)) :
        \A j \in 1..Len(part) : Lower(s[i + j]) = Lower(part[j])

\* a filter is skipped when its value is empty (None, '')
FilterName(qs, value) ==
    IF value = <<>> THEN qs ELSE SelectSeq(qs, LAMBDA row : IContains(row.name, value))
FilterGte(qs, field, value) ==
    IF value = <<>> THEN qs ELSE SelectSeq(qs, LAMBDA row : row[field] >= value[1])
FilterLte(qs, field, value) ==
    IF value = <<>> THEN qs ELSE SelectSeq(qs, LAMBDA row : row[field] <= value[1])

\* the filter with stock__lte in place of stock__lt
filter_low_stock_lte(queryset, value) ==
    IF value THEN SelectSeq(queryset, LAMBDA row : row.stock <= LowStockLimit)
    ELSE queryset

\* ProductFilter.filter_low_stock
filter_low_stock(queryset, value) ==
    IF value THEN SelectSeq(queryset, LAMBDA row : row.stock < LowStockLimit)
    ELSE queryset

FilterLowStock(qs, value) ==
    IF value = <<>> THEN qs ELSE filter_low_stock(qs, value[1])

\* the filters applied one after the other to Product.objects.all()
ProductFilter(table, f) ==
    FilterLowStock(
        FilterLte(
            FilterGte(
                FilterLte(
                    FilterGte(FilterName(table, f.name), "price", f.price__gte),
                    "price", f.price__lte),
                "stock", f.stock__gte),
            "stock", f.stock__lte),
        f.low_stock)

NoFilter == [name |-> <<>>, price__gte |-> <<>>, price__lte |-> <<>>,
             stock__gte |-> <<>>, stock__lte |-> <<>>, low_stock |-> <<>>]

FilterArgs ==
    [name : {<<>>, <<"p", "E">>}, price__gte : {<<>>, <<2>>}, price__lte : {<<>>, <<1>>},
     stock__gte : {<<>>, <<10>>}, stock__lte : {<<>>, <<10>>},
     low_stock : {<<>>, <<TRUE>>, <<FALSE>>}]

\* the products CreateProduct can have stored
StoredProducts ==
    {table \in SeqsUpTo([id : 1..MaxFilterProducts,
                         name : {<<"P", "e", "n">>, <<"I", "n", "k">>},
                         price : Prices, stock : {9, 10, 11}], MaxFilterProducts) :
        \A i \in 1..Len(table) : table[i].id = i}

\* Query.all_products with the filter arguments f
AllProducts(f) ==
    /\ query = <<>>
    /\ query' = <<[args |-> f, result |-> ProductFilter(products, f)]>>
    /\ UNCHANGED <<customers, products, orders, last, procs, phone, typing, accepted>>

\* the response is sent
Respond ==
    /\ query # <<>>
    /\ query' = <<>>
    /\ UNCHANGED <<customers, products, orders, last, procs, phone, typing, accepted>>

InitFilter ==
    /\ InitIdle
    /\ customers = <<>>
    /\ orders = <<>>
    /\ products \in StoredProducts

NextFilter ==
    \/ \E f \in FilterArgs : AllProducts(f)
    \/ Respond

SpecFilter == InitFilter /\ [][NextFilter]_vars

Ids(rows) == {rows[i].id : i \in 1..Len(rows)}

\* the filter arguments f with every argument but the one named arg left out
Only(f, arg) == [NoFilter EXCEPT ![arg] = f[arg]]

FilterNames ==
    {"name", "price__gte", "price__lte", "stock__gte", "stock__lte", "low_stock"}

\* C9: lowStock=true alone returns exactly the products with stock < 10;
\* lowStock false or absent imposes no constraint; with other filters the
\* result is the intersection of each supplied filter's result.
C9_LowStockAndConjunction ==
    query # <<>> =>
        LET f == query[1].args
            result == Ids(query[1].result)
        IN  /\ f = [NoFilter EXCEPT !.low_stock = <<TRUE>>] =>
                  result = {i \in 1..Len(products) : products[i].stock < 10}
            /\ f \in {NoFilter, [NoFilter EXCEPT !.low_stock = <<FALSE>>]} =>
                  result = 1..Len(products)
            /\ result = {i \in 1..Len(products) :
                            \A arg \in FilterNames :
                                i \in Ids(ProductFilter(products, Only(f, arg)))}
            /\ f.low_stock # <<TRUE>> =>
                  result = Ids(ProductFilter(products, [f EXCEPT !.low_stock = <<>>]))

\* C9's case: lowStock=true was asked for together with another filter of a
\* table that holds a product with stock 9 and one with stock 10, and each of
\* the two filters removed a row
C9_Witness ==
    /\ query # <<>>
    /\ query[1].args.low_stock = <<TRUE>> /\ query[1].args.name # <<>>
    /\ \E i, j \in 1..Len(products) :
          /\ products[i].stock = 9 /\ products[j].stock = 10
          /\ i \in Ids(query[1].result) /\ j \notin Ids(query[1].result)
    /\ Len(ProductFilter(products, Only(query[1].args, "name"))) < Len(products)

----------------------------------------------------------------------------
(* Claims about the customer mutations, checked under SpecCustomer *)

\* what the claim C4 says makes an item succeed
ItemAcceptable(table, item) ==
    /\ item.name # "" /\ item.email # ""
    /\ Falsy(item.phone) \/ is_valid_phone(item.phone)
    /\ ~EmailTaken(table, item.email)

\* C4: BulkCreateCustomers never aborts on an item's failure: the call returns
\* both lists and created count plus error count equals the input length, and
\* an item with name and email present, phone absent or valid and an email not
\* in the store is persisted and appended to the created list, while any other
\* item contributes exactly one error message and changes nothing.
C4_BulkIsolatesFailures ==
    /\ last.op = "BulkCreateCustomers" =>
          /\ last.result = "ok"
          /\ Len(last.created) + Len(last.errors) = last.input.n
    /\ \A item \in BulkItems :
          LET r == BulkMutate(customers, <<item>>)
          IN  IF ItemAcceptable(customers, item)
              THEN /\ r.table = Append(customers, NewCustomer(customers, item))
                   /\ r.created = <<Len(customers) + 1>> /\ r.errors = <<>>
              ELSE /\ r.table = customers
                   /\ r.created = <<>> /\ Len(r.errors) = 1

\* C5: no two persisted customers that have a phone share the phone value.
C5_PhoneUnique ==
    \A i, j \in 1..Len(customers) :
        (i # j /\ Present(customers[i].phone)) =>
            customers[i].phone # customers[j].phone

\* C5's case: a customer with a phone is stored and a bulk call, which does
\* not look phones up, has just had an insert turned down by the table
C5_Witness ==
    /\ last.op = "BulkCreateCustomers" /\ last.result = "IntegrityError"
    /\ \E i \in 1..Len(customers) : Present(customers[i].phone)

\* C6: CreateCustomer reports the first failing check in the order phone
\* format, email uniqueness, phone uniqueness: an absent or malformed phone
\* gives the phone-format error even when the email exists, and a valid phone
\* with email and phone both in the store gives the email conflict.
C6_CheckOrder ==
    [][last'.op = "CreateCustomer" =>
        LET input == last'.input
            badPhone == Falsy(input.phone) \/ ~is_valid_phone(input.phone)
        IN  /\ badPhone => last'.result = "InvalidPhone"
            /\ (~badPhone /\ EmailTaken(customers, input.email)) =>
                   last'.result = "EmailExists"
            /\ (~badPhone /\ ~EmailTaken(customers, input.email)
                          /\ PhoneTaken(customers, input.phone)) =>
                   last'.result = "PhoneExists"]_vars

\* C6's case: the email of one stored customer and the valid phone of another
\* were submitted together, and the email conflict was reported
C6_Witness ==
    /\ last.op = "CreateCustomer" /\ last.result = "EmailExists"
    /\ is_valid_phone(last.input.phone)
    /\ \E i, j \in 1..Len(customers) :
          /\ i # j
          /\ customers[i].email = last.input.email
          /\ customers[j].phone = last.input.phone

====
